---- MODULE Spec2Model ----
(***************************************************************************)
(* Model of the QUADSPI driver of stm32g4xx-hal (src/src/quadspi.rs):      *)
(* the argument encoding (CommandArgumentData), the register compiler      *)
(* (Qspi::config) and the four public operations command, read, write and  *)
(* memory_mapped, each split into one step per register access so that the *)
(* peripheral can move between two accesses.                               *)
(***************************************************************************)
EXTENDS Integers, Sequences, FiniteSets, TLC

\* ------------------------------------------------------------------ bounds
\* longest buffer handed to read() / write()
MaxLen == 2
\* bytes the peripheral FIFO holds
FifoSize == 1

\* --------------------------------------------------------------- constants
\* a u32 is kept as its two 16-bit halves <<low, high>>
U16 == 65536

\* ------------------------------------------------------------ input pools
LineMode == {"Single", "Dual", "Quad"}
DdrMode == {"Disabled", "Enabled", "EnabledWithHold"}
\* bytes of the arguments checked one by one (argument encoding)
ArgBytes == {0, 1, 16, 255}
\* bytes the flash device may deliver, bytes the caller may send
DevBytes == {17, 34}
WrBytes == {161, 178}

None == <<>>
Some(x) == <<x>>
IsSome(o) == Len(o) = 1
Unwrap(o) == o[1]

RECURSIVE SeqsOfLen(_, _)
SeqsOfLen(S, n) ==
    IF n = 0 THEN {<<>>}
    ELSE {Append(s, b) : s \in SeqsOfLen(S, n - 1), b \in S}

RECURSIVE SeqsUpTo(_, _)
SeqsUpTo(S, n) ==
    IF n = 0 THEN {<<>>} ELSE SeqsOfLen(S, n) \cup SeqsUpTo(S, n - 1)

\* ------------------------------------------------------- 32-bit words
\* the u32 of a small natural number
W(n) == <<n % U16, n \div U16>>
Zero == W(0)

\* u16::from_le_bytes
u16_from_le_bytes(x) == x[1] + 256 * x[2]
\* u32::from_le_bytes
u32_from_le_bytes(x) == <<x[1] + 256 * x[2], x[3] + 256 * x[4]>>

\* a - 1 on u32, wrapping
WrappingDec(w) ==
    IF w[1] > 0 THEN <<w[1] - 1, w[2]>>
    ELSE IF w[2] > 0 THEN <<U16 - 1, w[2] - 1>>
    ELSE <<U16 - 1, U16 - 1>>

\* ------------------------------------------------------ argument encoding
\* the value a reader of the bytes expects: little-endian, zero-extended
ZeroExtendLe(bytes) ==
    LET b(k) == IF k <= Len(bytes) THEN bytes[k] ELSE 0
    IN  <<b(1) + 256 * b(2), b(3) + 256 * b(4)>>

\* impl From<[u8; N]> for CommandArgumentData: the variant is the width
CommandArgumentData(value) ==
    [variant |-> CASE Len(value) = 1 -> "OneByte"
                   [] Len(value) = 2 -> "TwoBytes"
                   [] Len(value) = 3 -> "ThreeBytes"
                   [] OTHER -> "FourBytes",
     x |-> value]

to_u32(self) ==
    CASE self.variant = "OneByte" -> W(self.x[1])
      [] self.variant = "TwoBytes" -> W(u16_from_le_bytes(self.x))
      [] self.variant = "ThreeBytes" ->
            u32_from_le_bytes(<<0, self.x[1], self.x[2], self.x[3]>>)
      [] OTHER -> u32_from_le_bytes(self.x)

\* ------------------------------------------------------ register compiler
Pow2(n) == 2 ^ n
\* the field of `width` bits at bit `shift` of a register value
Field(v, shift, width) ==
    IF shift < 16 THEN (v[1] \div Pow2(shift)) % Pow2(width)
    ELSE (v[2] \div Pow2(shift - 16)) % Pow2(width)

\* imode / admode / abmode / dmode: no phase is 0
LineCode(mode) ==
    CASE mode = "Single" -> 1
      [] mode = "Dual" -> 2
      [] OTHER -> 3

\* a size taken from the numeric value: the bytes up to the last non-zero one
SizeCode_ByValue(data) ==
    LET used == {k \in 1..Len(data.x) : data.x[k] # 0}
    IN  IF used = {} THEN 0 ELSE (CHOOSE k \in used : \A j \in used : j <= k) - 1

\* adsize / absize: bit8, bit16, bit24, bit32
SizeCode(data) ==
    CASE data.variant = "OneByte" -> 0
      [] data.variant = "TwoBytes" -> 1
      [] data.variant = "ThreeBytes" -> 2
      [] OTHER -> 3

FunctionalMode == {"Read", "Write", "Poll", "Mapped"}
FmodeCode(functional_mode) ==
    CASE functional_mode = "Write" -> 0
      [] functional_mode = "Read" -> 1
      [] functional_mode = "Poll" -> 2
      [] OTHER -> 3

BoolBit(b) == IF b THEN 1 ELSE 0

\* inst.abr().write
AbrValue(a) ==
    IF IsSome(a.alternate_bytes) THEN to_u32(Unwrap(a.alternate_bytes).data) ELSE Zero

\* the fields of the CCR writer; a field the closure leaves alone keeps the
\* reset value 0
Instruction(a) == IF IsSome(a.instruction) THEN Unwrap(a.instruction).data ELSE 0
Imode(a) == IF IsSome(a.instruction) THEN LineCode(Unwrap(a.instruction).mode) ELSE 0
Admode(a) == IF IsSome(a.address) THEN LineCode(Unwrap(a.address).mode) ELSE 0
Adsize(a) == IF IsSome(a.address) THEN SizeCode(Unwrap(a.address).data) ELSE 0
Abmode(a) ==
    IF IsSome(a.alternate_bytes) THEN LineCode(Unwrap(a.alternate_bytes).mode) ELSE 0
Absize(a) ==
    IF IsSome(a.alternate_bytes) THEN SizeCode(Unwrap(a.alternate_bytes).data) ELSE 0
Dcyc(a) == a.dummy_cycles
Dmode(a) == IF IsSome(a.data_mode) THEN LineCode(Unwrap(a.data_mode)) ELSE 0
Fmode(a) == FmodeCode(a.functional_mode)
Sioo(a) == BoolBit(a.send_instruction_once)
Dhhc(a) == BoolBit(a.ddr_mode = "EnabledWithHold")
\* the enable bit set for plain Enabled only
Ddrm_EnabledOnly(a) == BoolBit(a.ddr_mode = "Enabled")

Ddrm(a) == BoolBit(a.ddr_mode # "Disabled")

\* inst.ccr().write: the fields at their places in the register
CcrValue(a) ==
    <<  Instruction(a)
      + Imode(a) * Pow2(8)
      + Admode(a) * Pow2(10)
      + Adsize(a) * Pow2(12)
      + Abmode(a) * Pow2(14),
        Absize(a) * Pow2(16 - 16)
      + Dcyc(a) * Pow2(18 - 16)
      + Dmode(a) * Pow2(24 - 16)
      + Fmode(a) * Pow2(26 - 16)
      + Sioo(a) * Pow2(28 - 16)
      + Dhhc(a) * Pow2(30 - 16)
      + Ddrm(a) * Pow2(31 - 16) >>

\* inst.ar().write: an untouched writer stores the reset value 0
ArValue(a) ==
    IF IsSome(a.address) THEN to_u32(Unwrap(a.address).data) ELSE Zero

\* fields of CCR the peripheral looks at
CcrAdmode(ccr) == Field(ccr, 10, 2)
CcrDmode(ccr) == Field(ccr, 24, 2)
CcrFmode(ccr) == Field(ccr, 26, 2)

\* ------------------------------------------------------------ descriptors
CommandInstruction(mode, data) == [mode |-> mode, data |-> data]
CommandArgument(mode, bytes) == [mode |-> mode, data |-> CommandArgumentData(bytes)]

Instructions == {None, Some(CommandInstruction("Single", 6))}
Addresses == {None, Some(CommandArgument("Quad", <<0, 16, 0>>))}
AlternateBytes == {None, Some(CommandArgument("Dual", <<165>>))}

\* Command::new(..).with_instruction(..).with_address(..).with_alternate_bytes(..)
Commands ==
    [ddr_mode : {"Disabled"}, instruction : Instructions,
     address : Addresses, alternate_bytes : AlternateBytes]

\* IoCommand::new(..) and its with_* builders
IoCommands ==
    [ddr_mode : {"Disabled"}, send_instruction_once : {FALSE},
     instruction : Instructions, address : Addresses,
     alternate_bytes : AlternateBytes, dummy_cycles : {4}, data_mode : {"Quad"}]

\* the arguments command() hands to config
CommandArgs(command) ==
    [functional_mode |-> "Write", send_instruction_once |-> FALSE,
     ddr_mode |-> command.ddr_mode, instruction |-> command.instruction,
     address |-> command.address, alternate_bytes |-> command.alternate_bytes,
     dummy_cycles |-> 0, data_mode |-> None]

\* every operation compiled as an indirect write without dummy cycles
IoArgs_AsWrite(functional_mode, command) ==
    [functional_mode |-> "Write",
     send_instruction_once |-> command.send_instruction_once,
     ddr_mode |-> command.ddr_mode, instruction |-> command.instruction,
     address |-> command.address, alternate_bytes |-> command.alternate_bytes,
     dummy_cycles |-> 0, data_mode |-> Some(command.data_mode)]

\* the arguments read(), write() and memory_mapped() hand to config
IoArgs(functional_mode, command) ==
    [functional_mode |-> functional_mode,
     send_instruction_once |-> command.send_instruction_once,
     ddr_mode |-> command.ddr_mode, instruction |-> command.instruction,
     address |-> command.address, alternate_bytes |-> command.alternate_bytes,
     dummy_cycles |-> command.dummy_cycles, data_mode |-> Some(command.data_mode)]

NoCommand == [ddr_mode |-> "Disabled", instruction |-> None,
              address |-> None, alternate_bytes |-> None]
NoArgs == CommandArgs(NoCommand)

\* ------------------------------------------------------------------ state
VARIABLES
    pc,          \* where the running public operation stands
    op,          \* the public operation running or last finished
    desc,        \* the descriptor the caller handed to it
    cfg,         \* the arguments this operation hands to config
    data,        \* the caller's buffer
    i,           \* loop index of read() / write()
    ABR, CCR, AR, DLR,   \* peripheral registers written by the driver
    fifo,        \* bytes in the peripheral FIFO
    tcf,         \* transfer-complete flag of the status register
    active,      \* a transaction is executing on the bus
    trigger,     \* register whose access launches the configured transaction
    moved,       \* data bytes the executing transaction has moved
    mappedBusy,  \* a memory-mapped access has been served
    log,         \* register accesses and finished waits of this operation
    launches,    \* transactions launched by this operation
    mine,        \* the executing transaction was launched by this operation
    completed,   \* a transaction launched by this operation has completed
    atLaunch,    \* register contents at each launch of this operation
    polled,      \* status flags this operation has read, with the values seen
    argPc, argRaw, argData, argOut,  \* argument encoding on its own
    spc,         \* where qspi() stands
    sarg,        \* the arguments handed to qspi()
    clock,       \* RCC: the peripheral clock is enabled
    CR, DCR,     \* one-time setup registers, by field
    slog         \* the steps qspi() has done, with the enable bit after each

drv == <<pc, op, desc, cfg, data, i>>
regs == <<ABR, CCR, AR, DLR>>
hw == <<fifo, tcf, active, trigger, moved, mappedBusy>>
hist == <<log, launches, mine, completed, atLaunch, polled>>
argv == <<argPc, argRaw, argData, argOut>>
setup == <<spc, sarg, clock, CR, DCR, slog>>
vars == <<drv, regs, hw, hist, argv, setup>>

\* fifo_threshold handed to qspi(): FTHRES holds fifo_threshold - 1
fifo_threshold == 1

\* --------------------------------------------------------- status register
\* BUSY: an operation is ongoing, or read data is still waiting in the FIFO
Busy ==
    active \/ mappedBusy \/ (CcrFmode(CCR) = FmodeCode("Read") /\ fifo # <<>>)

\* FTF: room for fifo_threshold bytes when writing, that many bytes (or a
\* finished transfer's rest) waiting when reading
Ftf ==
    CASE CcrFmode(CCR) = FmodeCode("Write") -> FifoSize - Len(fifo) >= fifo_threshold
      [] CcrFmode(CCR) = FmodeCode("Read") ->
            Len(fifo) >= fifo_threshold \/ (~active /\ fifo # <<>>)
      [] OTHER -> FALSE

\* a busy test that never holds the caller back
is_busy_Never(busy) == FALSE

is_busy(busy) == busy
is_not_reached(ftf) == ~ftf

\* a completion test that never lets the caller go
is_not_complete_Always(t) == TRUE

is_not_complete(t) == ~t

Ev(k, r, v) == [k |-> k, r |-> r, v |-> v]

\* DLR holds the number of data bytes minus one
Transferred ==
    IF CcrDmode(CCR) = 0 THEN TRUE ELSE moved >= 1 /\ W(moved - 1) = DLR

\* ------------------------------------------------------------ launch rule
\* "DR required": the firmware provides the data of a write; for a read the
\* peripheral either fetches on its own or waits for the first DR access
DrRequired(ccr) ==
    IF CcrDmode(ccr) = 0 THEN {FALSE}
    ELSE IF CcrFmode(ccr) = FmodeCode("Write") THEN {TRUE}
    ELSE {TRUE, FALSE}

\* the register whose write (access, for DR) triggers the operation
LaunchOn(ccr, dr) ==
    IF dr THEN "DR"
    ELSE IF CcrAdmode(ccr) # 0 THEN "AR"
    ELSE "CCR"

\* the peripheral starts the configured transaction
Launch(abr, ccr, ar, dlr) ==
    /\ active' = TRUE
    /\ trigger' = "none"
    /\ moved' = 0
    /\ launches' = launches + 1
    /\ mine' = TRUE
    /\ atLaunch' = Append(atLaunch, [abr |-> abr, ccr |-> ccr, ar |-> ar, dlr |-> dlr])

\* ------------------------------------------------------- control of a call
\* the order with the control register written before the alternate bytes
ConfigSteps_CcrFirst == <<"ccr", "abr", "ar">>

\* Qspi::config writes its registers in this order
ConfigSteps == <<"abr", "ccr", "ar">>

StepAfter(step) ==
    IF \E k \in 1..(Len(ConfigSteps) - 1) : ConfigSteps[k] = step
    THEN ConfigSteps[(CHOOSE k \in 1..(Len(ConfigSteps) - 1) : ConfigSteps[k] = step) + 1]
    ELSE "configured"

\* every operation writing the data length first
AfterWait_AlwaysDlr(o) == "dlr"

\* what each public operation does once wait_not_busy has returned
AfterWait(o) == IF o \in {"read", "write"} THEN "dlr" ELSE ConfigSteps[1]

\* memory_mapped() waiting for transfer-complete as command() does
AfterConfig_MappedWaits(o, n) ==
    CASE o = "command" -> "cmd_tcf"
      [] o = "read" -> IF 0 < n THEN "rd_ftf" ELSE "done"
      [] o = "write" -> IF 0 < n THEN "wr_ftf" ELSE "wr_tcf"
      [] OTHER -> "cmd_tcf"

\* what each public operation does once config has returned
AfterConfig(o, n) ==
    CASE o = "command" -> "cmd_tcf"
      [] o = "read" -> IF 0 < n THEN "rd_ftf" ELSE "done"
      [] o = "write" -> IF 0 < n THEN "wr_ftf" ELSE "wr_tcf"
      [] OTHER -> "done"

Continue(step, o, n) ==
    IF StepAfter(step) = "configured" THEN AfterConfig(o, n) ELSE StepAfter(step)

\* the length itself instead of the length minus one
DlrValue_NoDec(n) == W(n)

\* u32::try_from(data.len()).unwrap() - 1, when the subtraction wraps
DlrValue(n) == WrappingDec(W(n))

\* every byte stored at the first index
Slot_First(k) == 1

\* data[i]: buffers are indexed from 0 in the source, from 1 here
Slot(k) == k + 1

Begin(o, command, a, buf) ==
    /\ pc \in {"idle", "done"}
    /\ pc' = "wait_not_busy"
    /\ op' = o
    /\ desc' = command
    /\ cfg' = a
    /\ data' = buf
    /\ i' = 0
    /\ log' = <<>>
    /\ launches' = 0
    /\ mine' = FALSE
    /\ completed' = FALSE
    /\ atLaunch' = <<>>
    /\ polled' = {}
    /\ UNCHANGED <<regs, hw, argv, setup>>

\* pub fn command(&mut self, command: Command)
CallCommand == \E command \in Commands : Begin("command", command, CommandArgs(command), <<>>)

\* pub fn read(&mut self, command: IoCommand, data: &mut [u8])
CallRead ==
    \E command \in IoCommands, n \in 0..MaxLen :
        Begin("read", command, IoArgs("Read", command), [k \in 1..n |-> 0])

\* pub fn write(&mut self, command: IoCommand, data: &[u8])
CallWrite ==
    \E command \in IoCommands, buf \in SeqsUpTo(WrBytes, MaxLen) :
        Begin("write", command, IoArgs("Write", command), buf)

\* pub fn memory_mapped(&mut self, command: IoCommand)
CallMemoryMapped ==
    \E command \in IoCommands : Begin("memory_mapped", command, IoArgs("Mapped", command), <<>>)

\* fn wait_not_busy(&self): one read of SR
WaitNotBusy ==
    /\ pc = "wait_not_busy"
    /\ IF is_busy(Busy)
       THEN UNCHANGED <<pc, log>>
       ELSE /\ pc' = AfterWait(op)
            /\ log' = Append(log, Ev("wait", "BUSY", W(BoolBit(Busy))))
    /\ polled' = polled \cup {<<"BUSY", BoolBit(Busy)>>}
    /\ UNCHANGED <<op, desc, cfg, data, i, regs, hw, launches, mine, completed, atLaunch, argv, setup>>

\* self.inst.dlr().write(..): data.len() - 1 wraps without overflow checks
WriteDlr ==
    /\ pc = "dlr"
    /\ DLR' = DlrValue(Len(data))
    /\ log' = Append(log, Ev("wr", "DLR", DLR'))
    /\ pc' = ConfigSteps[1]
    /\ UNCHANGED <<op, desc, cfg, data, i, ABR, CCR, AR, hw, launches, mine, completed, atLaunch, polled, argv, setup>>

\* the same line with overflow checks: `0 - 1` panics
DlrPanic ==
    /\ pc = "dlr"
    /\ Len(data) - 1 < 0
    /\ pc' = "panic"
    /\ UNCHANGED <<op, desc, cfg, data, i, regs, hw, hist, argv, setup>>

\* inst.abr().write(..)
WriteAbr ==
    /\ pc = "abr"
    /\ ABR' = AbrValue(cfg)
    /\ log' = Append(log, Ev("wr", "ABR", ABR'))
    /\ pc' = Continue("abr", op, Len(data))
    /\ UNCHANGED <<op, desc, cfg, data, i, CCR, AR, DLR, hw, launches, mine, completed, atLaunch, polled, argv, setup>>

\* ccr().modify(..) with the no_address() arm missing: the address mode of an
\* absent address stays as CCR had it
CcrWrite_Modify(old, a) ==
    <<CcrValue(a)[1]
        + (IF IsSome(a.address) THEN 0 ELSE Field(old, 10, 2) * Pow2(10)),
      CcrValue(a)[2]>>

\* ccr().write(..): the writer starts from the reset value, not from what
\* CCR holds
CcrWrite(old, a) == CcrValue(a)

\* inst.ccr().write(..); the peripheral arms or launches the transaction
WriteCcr ==
    /\ pc = "ccr"
    /\ CCR' = CcrWrite(CCR, cfg)
    /\ log' = Append(log, Ev("wr", "CCR", CCR'))
    /\ pc' = Continue("ccr", op, Len(data))
    /\ IF CcrFmode(CCR') = FmodeCode("Mapped")
       THEN /\ trigger' = "none"
            /\ UNCHANGED <<active, moved, launches, mine, atLaunch>>
       ELSE \E dr \in DrRequired(CCR') :
              IF LaunchOn(CCR', dr) = "CCR"
              THEN Launch(ABR, CCR', AR, DLR)
              ELSE /\ trigger' = LaunchOn(CCR', dr)
                   /\ UNCHANGED <<active, moved, launches, mine, atLaunch>>
    /\ UNCHANGED <<op, desc, cfg, data, i, ABR, AR, DLR, fifo, tcf, mappedBusy, completed, polled, argv, setup>>

\* ar().modify(..): an absent address leaves AR as it was
ArWrite_Modify(old, a) == IF IsSome(a.address) THEN ArValue(a) ELSE old

\* ar().write(..): the writer starts from the reset value, not from what AR
\* holds
ArWrite(old, a) == ArValue(a)

\* inst.ar().write(..)
WriteAr ==
    /\ pc = "ar"
    /\ AR' = ArWrite(AR, cfg)
    /\ log' = Append(log, Ev("wr", "AR", AR'))
    /\ pc' = Continue("ar", op, Len(data))
    /\ IF trigger = "AR"
       THEN Launch(ABR, CCR, AR', DLR)
       ELSE UNCHANGED <<active, trigger, moved, launches, mine, atLaunch>>
    /\ UNCHANGED <<op, desc, cfg, data, i, ABR, CCR, DLR, fifo, tcf, mappedBusy, completed, polled, argv, setup>>

\* command(): while self.inst.sr().read().tcf().is_not_complete() {}
CommandWaitTcf ==
    /\ pc = "cmd_tcf"
    /\ IF is_not_complete(tcf)
       THEN UNCHANGED <<pc, log>>
       ELSE /\ pc' = "done"
            /\ log' = Append(log, Ev("wait", "TCF", W(BoolBit(tcf))))
    /\ polled' = polled \cup {<<"TCF", BoolBit(tcf)>>}
    /\ UNCHANGED <<op, desc, cfg, data, i, regs, hw, launches, mine, completed, atLaunch, argv, setup>>

\* read(): sr.read().ftf().is_not_reached(), left operand of the &&
ReadPollFtf ==
    /\ pc = "rd_ftf"
    /\ IF is_not_reached(Ftf)
       THEN /\ pc' = "rd_tcf"
            /\ UNCHANGED log
       ELSE /\ pc' = "rd_dr"
            /\ log' = Append(log, Ev("wait", "FTF", W(BoolBit(Ftf))))
    /\ polled' = polled \cup {<<"FTF", BoolBit(Ftf)>>}
    /\ UNCHANGED <<op, desc, cfg, data, i, regs, hw, launches, mine, completed, atLaunch, argv, setup>>

\* read(): sr.read().tcf().is_not_complete(), right operand of the &&
ReadPollTcf ==
    /\ pc = "rd_tcf"
    /\ IF is_not_complete(tcf)
       THEN /\ pc' = "rd_ftf"
            /\ UNCHANGED log
       ELSE /\ pc' = "rd_dr"
            /\ log' = Append(log, Ev("wait", "TCF", W(BoolBit(tcf))))
    /\ polled' = polled \cup {<<"TCF", BoolBit(tcf)>>}
    /\ UNCHANGED <<op, desc, cfg, data, i, regs, hw, launches, mine, completed, atLaunch, argv, setup>>

\* read(): data[i] = self.inst.dr8().read().bits(); an empty FIFO yields
\* an unspecified byte
ReadDr ==
    /\ pc = "rd_dr"
    /\ \E b \in (IF fifo # <<>> THEN {Head(fifo)} ELSE DevBytes) :
          /\ data' = [data EXCEPT ![Slot(i)] = b]
          /\ log' = Append(log, Ev("rd", "DR", W(b)))
    /\ fifo' = IF fifo # <<>> THEN Tail(fifo) ELSE fifo
    /\ i' = i + 1
    /\ pc' = IF i' < Len(data) THEN "rd_ftf" ELSE "done"
    /\ IF trigger = "DR"
       THEN Launch(ABR, CCR, AR, DLR)
       ELSE UNCHANGED <<active, trigger, moved, launches, mine, atLaunch>>
    /\ UNCHANGED <<op, desc, cfg, regs, tcf, mappedBusy, completed, polled, argv, setup>>

\* write(): while self.inst.sr().read().ftf().is_not_reached() {}
WritePollFtf ==
    /\ pc = "wr_ftf"
    /\ IF is_not_reached(Ftf)
       THEN UNCHANGED <<pc, log>>
       ELSE /\ pc' = "wr_dr"
            /\ log' = Append(log, Ev("wait", "FTF", W(BoolBit(Ftf))))
    /\ polled' = polled \cup {<<"FTF", BoolBit(Ftf)>>}
    /\ UNCHANGED <<op, desc, cfg, data, i, regs, hw, launches, mine, completed, atLaunch, argv, setup>>

\* write(): self.inst.dr8().write(|w| w.set(data[i])); a full FIFO drops it
WriteDr ==
    /\ pc = "wr_dr"
    /\ fifo' = IF Len(fifo) < FifoSize THEN Append(fifo, data[Slot(i)]) ELSE fifo
    /\ log' = Append(log, Ev("wr", "DR", W(data[Slot(i)])))
    /\ i' = i + 1
    /\ pc' = IF i' < Len(data) THEN "wr_ftf" ELSE "wr_tcf"
    /\ IF trigger = "DR"
       THEN Launch(ABR, CCR, AR, DLR)
       ELSE UNCHANGED <<active, trigger, moved, launches, mine, atLaunch>>
    /\ UNCHANGED <<op, desc, cfg, data, regs, tcf, mappedBusy, completed, polled, argv, setup>>

\* write(): while self.inst.sr().read().tcf().is_not_complete() {}
WriteWaitTcf ==
    /\ pc = "wr_tcf"
    /\ IF is_not_complete(tcf)
       THEN UNCHANGED <<pc, log>>
       ELSE /\ pc' = "done"
            /\ log' = Append(log, Ev("wait", "TCF", W(BoolBit(tcf))))
    /\ polled' = polled \cup {<<"TCF", BoolBit(tcf)>>}
    /\ UNCHANGED <<op, desc, cfg, data, i, regs, hw, launches, mine, completed, atLaunch, argv, setup>>

\* ------------------------------------------------------------- peripheral
\* the flash device delivers the next byte of an indirect read
HwRxByte ==
    /\ active
    /\ CcrFmode(CCR) = FmodeCode("Read")
    /\ ~Transferred
    /\ Len(fifo) < FifoSize
    /\ \E b \in DevBytes : fifo' = Append(fifo, b)
    /\ moved' = moved + 1
    /\ UNCHANGED <<drv, regs, tcf, active, trigger, mappedBusy, hist, argv, setup>>

\* the peripheral shifts the next byte of an indirect write out
HwTxByte ==
    /\ active
    /\ CcrFmode(CCR) = FmodeCode("Write")
    /\ ~Transferred
    /\ fifo # <<>>
    /\ fifo' = Tail(fifo)
    /\ moved' = moved + 1
    /\ UNCHANGED <<drv, regs, tcf, active, trigger, mappedBusy, hist, argv, setup>>

\* the programmed number of bytes has been transferred: TCF is set and is
\* cleared only through the flag-clear register
HwComplete ==
    /\ active
    /\ Transferred
    /\ active' = FALSE
    /\ tcf' = TRUE
    /\ completed' = (completed \/ mine)
    /\ mine' = FALSE
    /\ UNCHANGED <<drv, regs, fifo, trigger, moved, mappedBusy, log, launches, atLaunch, polled, argv, setup>>

\* the processor reads the mapped address range between two calls
HwMappedAccess ==
    /\ pc = "done"
    /\ CcrFmode(CCR) = FmodeCode("Mapped")
    /\ ~mappedBusy
    /\ mappedBusy' = TRUE
    /\ UNCHANGED <<drv, regs, fifo, tcf, active, trigger, moved, hist, argv, setup>>

\* ------------------------------------------------------------------ setup
\* the arguments of qspi(); the pins carry no state
QspiArgs ==
    [clock_prescalar : {1}, fifo_threshold : 1..32, sample_shifting : BOOLEAN,
     flash_size : {23}, chip_select_high_time : {2},
     clock_mode : {"Mode0", "Mode3"}, flash_mode : {"Flash1", "Flash2", "Dual"}]

\* the setup every transaction of the other specifications runs under
DefaultQspiArgs ==
    [clock_prescalar |-> 1, fifo_threshold |-> fifo_threshold,
     sample_shifting |-> TRUE, flash_size |-> 23, chip_select_high_time |-> 2,
     clock_mode |-> "Mode0", flash_mode |-> "Flash1"]

\* the threshold itself instead of the threshold minus one
Fthres_Raw(a) == a.fifo_threshold

\* .fthres().bits(fifo_threshold - 1)
Fthres(a) == a.fifo_threshold - 1

\* CR and DCR after the peripheral reset
CrReset == [en |-> 0, fthres |-> 0, prescaler |-> 0, sshift |-> 0, fsel |-> 0, dfm |-> 0]
DcrReset == [fsize |-> 0, csht |-> 0, ckmode |-> 0]

\* self.cr().write(..): the fields not named keep the reset value, EN too
CrValue(a) ==
    [en |-> 0,
     fthres |-> Fthres(a),
     prescaler |-> a.clock_prescalar,
     sshift |-> BoolBit(a.sample_shifting),
     fsel |-> BoolBit(a.flash_mode = "Flash2"),
     dfm |-> BoolBit(a.flash_mode = "Dual")]

\* self.dcr().write(..)
DcrValue(a) ==
    [fsize |-> a.flash_size,
     csht |-> a.chip_select_high_time,
     ckmode |-> BoolBit(a.clock_mode = "Mode3")]

SetupEv(step, en) == [step |-> step, en |-> en]

\* the statements of qspi() in the order of the source
SetupSteps == <<"enable_clock", "reset", "clear_en", "write_cr", "write_dcr", "set_en">>

\* the log of a finished setup on a peripheral that was disabled before
SetupLog ==
    [n \in 1..Len(SetupSteps) |->
        SetupEv(SetupSteps[n], IF SetupSteps[n] = "set_en" THEN 1 ELSE 0)]

\* the statement after `step`, or the return of the handle
SetupAfter(step) ==
    IF \E k \in 1..(Len(SetupSteps) - 1) : SetupSteps[k] = step
    THEN SetupSteps[(CHOOSE k \in 1..(Len(SetupSteps) - 1) : SetupSteps[k] = step) + 1]
    ELSE "return"

SetupStep(step) ==
    /\ spc = step
    /\ spc' = SetupAfter(step)

\* QUADSPI::enable(rcc)
SetupEnableClock ==
    /\ SetupStep("enable_clock")
    /\ clock' = TRUE
    /\ slog' = Append(slog, SetupEv("enable_clock", CR.en))
    /\ UNCHANGED <<drv, regs, hw, hist, argv, sarg, CR, DCR>>

\* QUADSPI::reset(rcc): every register of the peripheral at its reset value
SetupReset ==
    /\ SetupStep("reset")
    /\ CR' = CrReset
    /\ DCR' = DcrReset
    /\ ABR' = Zero /\ CCR' = Zero /\ AR' = Zero /\ DLR' = Zero
    /\ fifo' = <<>>
    /\ tcf' = FALSE
    /\ active' = FALSE
    /\ trigger' = "none"
    /\ moved' = 0
    /\ mappedBusy' = FALSE
    /\ slog' = Append(slog, SetupEv("reset", CR'.en))
    /\ UNCHANGED <<drv, hist, argv, sarg, clock>>

\* self.cr().modify(|_, w| w.en().clear_bit())
SetupClearEn ==
    /\ SetupStep("clear_en")
    /\ CR' = [CR EXCEPT !.en = 0]
    /\ slog' = Append(slog, SetupEv("clear_en", CR'.en))
    /\ UNCHANGED <<drv, regs, hw, hist, argv, sarg, clock, DCR>>

\* self.cr().write(..)
SetupWriteCr ==
    /\ SetupStep("write_cr")
    /\ CR' = CrValue(sarg)
    /\ slog' = Append(slog, SetupEv("write_cr", CR'.en))
    /\ UNCHANGED <<drv, regs, hw, hist, argv, sarg, clock, DCR>>

\* self.dcr().write(..)
SetupWriteDcr ==
    /\ SetupStep("write_dcr")
    /\ DCR' = DcrValue(sarg)
    /\ slog' = Append(slog, SetupEv("write_dcr", CR.en))
    /\ UNCHANGED <<drv, regs, hw, hist, argv, sarg, clock, CR>>

\* self.cr().modify(|_, w| w.en().set_bit())
SetupSetEn ==
    /\ SetupStep("set_en")
    /\ CR' = [CR EXCEPT !.en = 1]
    /\ slog' = Append(slog, SetupEv("set_en", CR'.en))
    /\ UNCHANGED <<drv, regs, hw, hist, argv, sarg, clock, DCR>>

\* Qspi { inst: self }: from here on the caller holds the handle
SetupReturn ==
    /\ spc = "return"
    /\ spc' = "returned"
    /\ pc = "unbuilt"
    /\ pc' = "idle"
    /\ UNCHANGED <<op, desc, cfg, data, i, regs, hw, hist, argv, sarg, clock, CR, DCR, slog>>

\* ---------------------------------------------------------- specification
InitDriver ==
    /\ pc = "idle"
    /\ op = "none"
    /\ desc = NoCommand
    /\ cfg = NoArgs
    /\ data = <<>>
    /\ i = 0
    /\ ABR = Zero /\ CCR = Zero /\ AR = Zero /\ DLR = Zero
    /\ fifo = <<>>
    /\ tcf = FALSE
    /\ active = FALSE
    /\ trigger = "none"
    /\ moved = 0
    /\ mappedBusy = FALSE
    /\ log = <<>>
    /\ launches = 0
    /\ mine = FALSE
    /\ completed = FALSE
    /\ atLaunch = <<>>
    /\ polled = {}
    /\ spc = "returned"
    /\ sarg = DefaultQspiArgs
    /\ clock = TRUE
    /\ CR = [CrValue(sarg) EXCEPT !.en = 1]
    /\ DCR = DcrValue(sarg)
    /\ slog = SetupLog

Init ==
    /\ InitDriver
    /\ argPc = "off"
    /\ argRaw = <<>>
    /\ argData = None
    /\ argOut = Zero

Next ==
    \/ CallCommand
    \/ CallRead
    \/ CallWrite
    \/ CallMemoryMapped
    \/ WaitNotBusy
    \/ WriteDlr
    \/ DlrPanic
    \/ WriteAbr
    \/ WriteCcr
    \/ WriteAr
    \/ CommandWaitTcf
    \/ ReadPollFtf
    \/ ReadPollTcf
    \/ ReadDr
    \/ WritePollFtf
    \/ WriteDr
    \/ WriteWaitTcf
    \/ HwRxByte
    \/ HwTxByte
    \/ HwComplete
    \/ HwMappedAccess

Spec == Init /\ [][Next]_vars

\* the steps of the running call: the processor keeps executing it
DriverStep ==
    \/ WaitNotBusy
    \/ WriteDlr
    \/ DlrPanic
    \/ WriteAbr
    \/ WriteCcr
    \/ WriteAr
    \/ CommandWaitTcf
    \/ ReadPollFtf
    \/ ReadPollTcf
    \/ ReadDr
    \/ WritePollFtf
    \/ WriteDr
    \/ WriteWaitTcf

\* the steps of a launched transaction: the peripheral keeps executing it
HwStep == HwRxByte \/ HwTxByte \/ HwComplete

SpecLive == Init /\ [][Next]_vars /\ WF_vars(DriverStep) /\ WF_vars(HwStep)

\* ------------------------------------- argument encoding, taken on its own
ArgInputs ==
    SeqsOfLen(ArgBytes, 1) \cup SeqsOfLen(ArgBytes, 2)
        \cup SeqsOfLen(ArgBytes, 3) \cup SeqsOfLen(ArgBytes, 4)

InitArg ==
    /\ InitDriver
    /\ argPc = "bytes"
    /\ argRaw \in ArgInputs
    /\ argData = None
    /\ argOut = Zero

\* adddress.into() / alternate_bytes.into()
ArgFrom ==
    /\ argPc = "bytes"
    /\ argData' = Some(CommandArgumentData(argRaw))
    /\ argPc' = "arg"
    /\ UNCHANGED <<drv, regs, hw, hist, argRaw, argOut, setup>>

\* data.to_u32()
ArgToU32 ==
    /\ argPc = "arg"
    /\ argOut' = to_u32(Unwrap(argData))
    /\ argPc' = "done"
    /\ UNCHANGED <<drv, regs, hw, hist, argRaw, argData, setup>>

NextArg == ArgFrom \/ ArgToU32

SpecArg == InitArg /\ [][NextArg]_vars

\* ------------------------- Qspi::config over the whole range of descriptors
AnyInstructions ==
    {None, Some(CommandInstruction("Single", 6))}
        \cup {Some(CommandInstruction(mode, 235)) : mode \in LineMode}

AnyAddresses ==
    {None,
     Some(CommandArgument("Single", <<0>>)),
     Some(CommandArgument("Single", <<255>>)),
     Some(CommandArgument("Dual", <<52, 18>>)),
     Some(CommandArgument("Dual", <<0, 0>>)),
     Some(CommandArgument("Quad", <<0, 16, 0>>)),
     Some(CommandArgument("Quad", <<255, 255, 255>>)),
     Some(CommandArgument("Single", <<120, 86, 52, 18>>)),
     Some(CommandArgument("Quad", <<1, 0, 0, 0>>))}

AnyAlternateBytes ==
    {None,
     Some(CommandArgument("Single", <<165>>)),
     Some(CommandArgument("Dual", <<0, 0>>)),
     Some(CommandArgument("Quad", <<1, 2, 3>>)),
     Some(CommandArgument("Dual", <<0, 0, 0, 1>>))}

AnyCommands ==
    [ddr_mode : DdrMode, instruction : AnyInstructions,
     address : AnyAddresses, alternate_bytes : AnyAlternateBytes]

AnyIoCommands ==
    [ddr_mode : DdrMode, send_instruction_once : BOOLEAN,
     instruction : AnyInstructions, address : AnyAddresses,
     alternate_bytes : AnyAlternateBytes, dummy_cycles : {0, 31},
     data_mode : LineMode]

\* an earlier command with every phase present, which the registers remember
PriorCommand ==
    [ddr_mode |-> "Disabled",
     instruction |-> Some(CommandInstruction("Single", 6)),
     address |-> Some(CommandArgument("Quad", <<0, 16, 0>>)),
     alternate_bytes |-> Some(CommandArgument("Dual", <<165>>))]

\* the state command(command) leaves when it has returned on a fresh handle
AfterCommand(command) ==
    /\ pc = "done"
    /\ op = "command"
    /\ desc = command
    /\ cfg = CommandArgs(command)
    /\ data = <<>>
    /\ i = 0
    /\ ABR = AbrValue(cfg) /\ CCR = CcrValue(cfg) /\ AR = ArValue(cfg) /\ DLR = Zero
    /\ fifo = <<>>
    /\ tcf = TRUE
    /\ active = FALSE
    /\ trigger = "none"
    /\ moved = 0
    /\ mappedBusy = FALSE
    /\ log = <<Ev("wait", "BUSY", W(0)), Ev("wr", "ABR", ABR), Ev("wr", "CCR", CCR),
               Ev("wr", "AR", AR), Ev("wait", "TCF", W(1))>>
    /\ launches = 1
    /\ mine = FALSE
    /\ completed = TRUE
    /\ atLaunch = <<[abr |-> ABR, ccr |-> CCR,
                     ar |-> IF IsSome(command.address) THEN AR ELSE Zero,
                     dlr |-> DLR]>>
    /\ polled = {<<"BUSY", 0>>, <<"TCF", 1>>}
    /\ spc = "returned"
    /\ sarg = DefaultQspiArgs
    /\ clock = TRUE
    /\ CR = [CrValue(sarg) EXCEPT !.en = 1]
    /\ DCR = DcrValue(sarg)
    /\ slog = SetupLog

\* a fresh handle, or one that has run a command before
InitCompile ==
    /\ InitDriver \/ AfterCommand(PriorCommand)
    /\ argPc = "off"
    /\ argRaw = <<>>
    /\ argData = None
    /\ argOut = Zero

\* the call whose configuration is looked at
Uncompiled == pc = "idle" \/ (pc = "done" /\ desc = PriorCommand /\ tcf)

CompileCommand ==
    /\ Uncompiled
    /\ \E command \in AnyCommands :
           Begin("command", command, CommandArgs(command), <<>>)

CompileRead ==
    /\ Uncompiled
    /\ \E command \in AnyIoCommands :
           Begin("read", command, IoArgs("Read", command), <<0>>)

CompileWrite ==
    /\ Uncompiled
    /\ \E command \in AnyIoCommands :
           Begin("write", command, IoArgs("Write", command), <<161>>)

CompileMemoryMapped ==
    /\ Uncompiled
    /\ \E command \in AnyIoCommands :
           Begin("memory_mapped", command, IoArgs("Mapped", command), <<>>)

NextCompile ==
    \/ CompileCommand
    \/ CompileRead
    \/ CompileWrite
    \/ CompileMemoryMapped
    \/ WaitNotBusy
    \/ WriteDlr
    \/ WriteAbr
    \/ WriteCcr
    \/ WriteAr

SpecCompile == InitCompile /\ [][NextCompile]_vars

\* ------------------------------------------------ qspi() and a first call
\* what an earlier boot stage may have left in the peripheral
LeftEnabled ==
    /\ CR = [CrReset EXCEPT !.en = 1, !.prescaler = 3]
    /\ DCR = [DcrReset EXCEPT !.fsize = 20]
    /\ ABR = AbrValue(CommandArgs(PriorCommand))
    /\ CCR = CcrValue(CommandArgs(PriorCommand))
    /\ AR = ArValue(CommandArgs(PriorCommand))
    /\ DLR = Zero
    /\ tcf = TRUE

LeftReset ==
    /\ CR = CrReset
    /\ DCR = DcrReset
    /\ ABR = Zero /\ CCR = Zero /\ AR = Zero /\ DLR = Zero
    /\ tcf = FALSE

\* qspi() has been called and has not run its first statement
InitSetup ==
    /\ pc = "unbuilt"
    /\ op = "none"
    /\ desc = NoCommand
    /\ cfg = NoArgs
    /\ data = <<>>
    /\ i = 0
    /\ LeftReset \/ LeftEnabled
    /\ fifo = <<>>
    /\ active = FALSE
    /\ trigger = "none"
    /\ moved = 0
    /\ mappedBusy = FALSE
    /\ log = <<>>
    /\ launches = 0
    /\ mine = FALSE
    /\ completed = FALSE
    /\ atLaunch = <<>>
    /\ polled = {}
    /\ argPc = "off"
    /\ argRaw = <<>>
    /\ argData = None
    /\ argOut = Zero
    /\ spc = SetupSteps[1]
    /\ sarg \in QspiArgs
    /\ clock = FALSE
    /\ slog = <<>>

\* the first call on the new handle
FirstCommand ==
    /\ pc = "idle"
    /\ CallCommand

NextSetup ==
    \/ SetupEnableClock
    \/ SetupReset
    \/ SetupClearEn
    \/ SetupWriteCr
    \/ SetupWriteDcr
    \/ SetupSetEn
    \/ SetupReturn
    \/ FirstCommand
    \/ WaitNotBusy
    \/ WriteAbr
    \/ WriteCcr
    \/ WriteAr
    \/ CommandWaitTcf
    \/ HwComplete

SpecSetup == InitSetup /\ [][NextSetup]_vars

\* ------------------------------------------------------------- properties
ConfigRegs =={"ABR", "CCR", "AR"}
Returned(o) == pc = "done" /\ op = o

\* the events of the log of one kind on a set of registers
Events(k, R) == SelectSeq(log, LAMBDA e : e.k = k /\ e.r \in R)
RegsOf(evs) == [n \in 1..Len(evs) |-> evs[n].r]
ValsOf(evs) == [n \in 1..Len(evs) |-> evs[n].v]
Shape == [n \in 1..Len(log) |-> <<log[n].k, log[n].r>>]
IsPrefix(a, b) == Len(a) <= Len(b) /\ \A n \in 1..Len(a) : a[n] = b[n]
BusyClear == Ev("wait", "BUSY", W(0))
\* config has returned in this call
Configured == pc \in {"cmd_tcf", "rd_ftf", "rd_tcf", "rd_dr", "wr_ftf", "wr_dr", "wr_tcf", "done"}

\* C1: in every call the configuration writes ABR, then CCR, then AR, each
\* exactly once, and ABR receives 0 when the descriptor has no alternate bytes
C1_ConfigOrder ==
    LET w == Events("wr", ConfigRegs)
    IN  /\ IsPrefix(RegsOf(w), <<"ABR", "CCR", "AR">>)
        /\ (Configured => RegsOf(w) = <<"ABR", "CCR", "AR">>)
        /\ (Len(w) >= 1 /\ ~IsSome(cfg.alternate_bytes) => w[1].v = Zero)

C1_Witness ==
    /\ Returned("memory_mapped")
    /\ ~IsSome(cfg.alternate_bytes)
    /\ ~IsSome(cfg.address)
    /\ RegsOf(Events("wr", ConfigRegs)) = <<"ABR", "CCR", "AR">>
    /\ ABR = Zero

\* C2: at each launch ABR and CCR hold the values compiled from the current
\* descriptor, AR holds the current address when there is an address phase,
\* DLR holds the current length (minus one) when there is a data phase
C2_LaunchConfigured ==
    \A n \in 1..Len(atLaunch) :
        /\ atLaunch[n].abr = AbrValue(cfg)
        /\ atLaunch[n].ccr = CcrValue(cfg)
        /\ (IsSome(cfg.address) =>
               atLaunch[n].ar = ZeroExtendLe(Unwrap(cfg.address).data.x))
        /\ (IsSome(cfg.data_mode) /\ Len(data) >= 1 =>
               atLaunch[n].dlr = W(Len(data) - 1))

\* C3: command() returns after one busy wait, the ABR, CCR, AR writes and one
\* transfer-complete wait, and the transaction it launched has completed
C3_CommandCompletes ==
    Returned("command") =>
        /\ Shape = << <<"wait", "BUSY">>, <<"wr", "ABR">>, <<"wr", "CCR">>,
                      <<"wr", "AR">>, <<"wait", "TCF">> >>
        /\ launches = 1
        /\ completed

\* C4: read() into L >= 1 bytes reads DR exactly L times, the i-th read going
\* to buffer index i, each read right after a wait that saw FTF or TCF set,
\* and never writes DR
C4_ReadBytes ==
    op = "read" /\ Len(data) >= 1 =>
        LET r == Events("rd", {"DR"})
        IN  /\ Len(r) = i
            /\ Len(r) <= Len(data)
            /\ (pc = "done" => Len(r) = Len(data))
            /\ \A n \in 1..Len(data) :
                  W(data[n]) = IF n <= Len(r) THEN r[n].v ELSE W(0)
            /\ \A n \in 1..Len(log) :
                  log[n].k = "rd" =>
                      /\ n > 1
                      /\ log[n - 1].k = "wait"
                      /\ log[n - 1].r \in {"FTF", "TCF"}
                      /\ log[n - 1].v = W(1)
            /\ Events("wr", {"DR"}) = <<>>

C4_Witness ==
    /\ Returned("read")
    /\ Len(data) = MaxLen
    /\ Len(Events("rd", {"DR"})) = MaxLen
    /\ data[1] # data[MaxLen]
    /\ <<"FTF", 0>> \in polled

\* C5: write() of L >= 1 bytes writes DR exactly L times with the buffer's
\* bytes in order, each write right after a wait that saw FTF set, then waits
\* for TCF and returns only when its transaction has completed
C5_WriteCompletes ==
    Returned("write") /\ Len(data) >= 1 =>
        LET w == Events("wr", {"DR"})
        IN  /\ ValsOf(w) = [n \in 1..Len(data) |-> W(data[n])]
            /\ \A n \in 1..Len(log) :
                  log[n].k = "wr" /\ log[n].r = "DR" =>
                      n > 1 /\ log[n - 1] = Ev("wait", "FTF", W(1))
            /\ log[Len(log)] = Ev("wait", "TCF", W(1))
            /\ launches = 1
            /\ completed
            /\ fifo = <<>>

\* C6: read() and write() with L >= 1 write DLR exactly once, with L - 1,
\* after the busy wait and before the ABR, CCR, AR writes
C6_LengthMinusOne ==
    op \in {"read", "write"} /\ Len(data) >= 1 =>
        /\ Len(Events("wr", {"DLR"})) <= 1
        /\ (pc \notin {"wait_not_busy", "dlr"} =>
               /\ Len(log) >= 2
               /\ log[1] = BusyClear
               /\ log[2] = Ev("wr", "DLR", W(Len(data) - 1))
               /\ Len(Events("wr", {"DLR"})) = 1
               /\ DLR = W(Len(data) - 1))

C6_Witness ==
    /\ Returned("write")
    /\ Len(data) = MaxLen
    /\ DLR = W(MaxLen - 1)
    /\ Len(Events("wr", ConfigRegs)) = 3

\* C7: read() or write() with an empty buffer ends in the error outcome:
\* no register is written and no transaction is launched
C7_EmptyRejected ==
    op \in {"read", "write"} /\ Len(data) = 0 =>
        /\ pc \in {"wait_not_busy", "dlr", "panic"}
        /\ Events("wr", {"DLR", "ABR", "CCR", "AR", "DR"}) = <<>>
        /\ launches = 0

\* C8: to_u32 returns the little-endian zero-extended value of the w bytes,
\* which is below 256^w
C8_ToU32LittleEndian ==
    argPc = "done" =>
        /\ argOut = ZeroExtendLe(argRaw)
        /\ (Len(argRaw) = 1 => argOut[1] < 256 /\ argOut[2] = 0)
        /\ (Len(argRaw) = 2 => argOut[2] = 0)
        /\ (Len(argRaw) = 3 => argOut[2] < 256)

\* C9: memory_mapped() waits for busy clear, writes ABR, CCR (memory-mapped
\* mode) and AR, and returns without reading the TCF or FTF flag
C9_MappedNoCompletionWait ==
    op = "memory_mapped" =>
        /\ \A f \in polled : f[1] = "BUSY"
        /\ pc \in {"wait_not_busy", "abr", "ccr", "ar", "done"}
        /\ (pc = "done" =>
               /\ log = <<BusyClear, Ev("wr", "ABR", AbrValue(cfg)),
                          Ev("wr", "CCR", CCR), Ev("wr", "AR", ArValue(cfg))>>
               /\ CcrFmode(CCR) = 3)

C9_Witness ==
    /\ Returned("memory_mapped")
    /\ ~tcf
    /\ polled = {<<"BUSY", 0>>}
    /\ CcrFmode(CCR) = 3

\* C10: no register is written before a status read has shown busy clear,
\* and while busy is set the call keeps polling and writes nothing
C10_BusyFirst ==
    /\ [](/\ (pc = "wait_not_busy" => log = <<>>)
          /\ (log # <<>> => log[1] = BusyClear))
    /\ [][pc = "wait_not_busy" /\ Busy =>
              pc' = "wait_not_busy" /\ log' = log /\ regs' = regs]_vars

C10_Witness ==
    /\ <<"BUSY", 1>> \in polled
    /\ Len(Events("wr", ConfigRegs)) = 3
    /\ log[1] = BusyClear

\* C11: at most one transaction is in flight: no call launches a transaction
\* while a transaction launched by an earlier call is still executing
C11_OneInFlight ==
    /\ [](launches <= 1)
    /\ [][launches' > launches => ~active /\ ~mappedBusy /\ active' /\ mine']_vars

C11_Witness ==
    /\ <<"BUSY", 1>> \in polled
    /\ launches = 1
    /\ active
    /\ mine

\* the flag the call is polling does not let it go on
Held ==
    \/ pc = "wait_not_busy" /\ Busy
    \/ pc \in {"cmd_tcf", "wr_tcf"} /\ ~tcf
    \/ pc \in {"rd_ftf", "rd_tcf"} /\ ~Ftf /\ ~tcf
    \/ pc = "wr_ftf" /\ ~Ftf
\* the hardware-liveness assumption has failed: the peripheral has come to
\* rest without producing the flag the call polls
AssumptionFailed == Held /\ ~ENABLED HwStep
Called == pc = "wait_not_busy" /\ (op \in {"read", "write"} => Len(data) >= 1)

CcrWritten == Events("wr", {"CCR"}) # <<>>
\* the mode field of an optional phase of the caller's descriptor
PhaseCode(phase) == IF IsSome(phase) THEN LineCode(Unwrap(phase).mode) ELSE 0

\* C13: once config has written CCR, the instruction, address and
\* alternate-bytes mode fields hold the line-width code of the phase when the
\* descriptor has it and the no-phase code 0 when it has not, whatever CCR
\* held before the call.
C13_PhaseModes ==
    CcrWritten =>
        /\ Field(CCR, 8, 2) = PhaseCode(desc.instruction)
        /\ Field(CCR, 10, 2) = PhaseCode(desc.address)
        /\ Field(CCR, 14, 2) = PhaseCode(desc.alternate_bytes)

\* CCR has been rewritten while AR still holds the address of the earlier
\* command: the new call has an instruction on four lines and no address
C13_Witness ==
    /\ pc = "ar"
    /\ AR # Zero
    /\ desc.address = None /\ Field(CCR, 10, 2) = 0
    /\ IsSome(desc.instruction) /\ Field(CCR, 8, 2) = 3
    /\ IsSome(desc.alternate_bytes) /\ Field(CCR, 14, 2) = 1

\* the bytes the caller gave for an argument
BytesOf(arg) == Unwrap(arg).data.x

\* C14: the size field of a present address or alternate-bytes argument is
\* the code of its byte width (1, 2, 3, 4 bytes give the 8-, 16-, 24-, 32-bit
\* code 0, 1, 2, 3) whatever the bytes are.
C14_SizeFromWidth ==
    CcrWritten =>
        /\ IsSome(desc.address) => Field(CCR, 12, 2) = Len(BytesOf(desc.address)) - 1
        /\ IsSome(desc.alternate_bytes) =>
               Field(CCR, 16, 2) = Len(BytesOf(desc.alternate_bytes)) - 1

\* the one-byte address 0x00 with the 8-bit code, next to four alternate
\* bytes with the 32-bit code
C14_Witness ==
    /\ CcrWritten
    /\ IsSome(desc.address) /\ BytesOf(desc.address) = <<0>>
    /\ Field(CCR, 12, 2) = 0
    /\ IsSome(desc.alternate_bytes) /\ BytesOf(desc.alternate_bytes) = <<0, 0, 0, 1>>
    /\ Field(CCR, 16, 2) = 3

\* C15: in the CCR value written, the DDR hold bit (DHHC) is set exactly for
\* EnabledWithHold and the DDR enable bit (DDRM) exactly for Enabled and
\* EnabledWithHold, so hold is never set with enable clear.
C15_DdrBits ==
    CcrWritten =>
        /\ Field(CCR, 30, 1) = 1 <=> desc.ddr_mode = "EnabledWithHold"
        /\ Field(CCR, 31, 1) = 1 <=> desc.ddr_mode \in {"Enabled", "EnabledWithHold"}
        /\ Field(CCR, 30, 1) = 1 => Field(CCR, 31, 1) = 1

\* a memory-mapped descriptor with hold: both bits set
C15_Witness ==
    /\ CcrWritten
    /\ op = "memory_mapped"
    /\ desc.ddr_mode = "EnabledWithHold"
    /\ Field(CCR, 30, 1) = 1 /\ Field(CCR, 31, 1) = 1

\* the functional mode each public operation stands for
ModeOf(o) ==
    CASE o = "read" -> "Read"
      [] o = "memory_mapped" -> "Mapped"
      [] OTHER -> "Write"

\* C16: the functional-mode field is fixed by the operation (command and
\* write: indirect write, read: indirect read, memory_mapped: memory-mapped),
\* the four modes have four different codes and the automatic-polling code is
\* never written; command() compiles no data phase, no dummy cycles and a
\* clear send-instruction-once bit, the other three pass the descriptor's
\* dummy cycles, data line width and send-instruction-once flag as they are.
C16_ModeAndData ==
    /\ Cardinality({FmodeCode(m) : m \in FunctionalMode}) = 4
    /\ CcrWritten =>
        /\ Field(CCR, 26, 2) = FmodeCode(ModeOf(op))
        /\ Field(CCR, 26, 2) # FmodeCode("Poll")
        /\ op = "command" =>
            /\ Field(CCR, 24, 2) = 0
            /\ Field(CCR, 18, 5) = 0
            /\ Field(CCR, 28, 1) = 0
        /\ op # "command" =>
            /\ Field(CCR, 24, 2) = LineCode(desc.data_mode)
            /\ Field(CCR, 18, 5) = desc.dummy_cycles
            /\ Field(CCR, 28, 1) = BoolBit(desc.send_instruction_once)

\* a read with 31 dummy cycles, data on two lines and the instruction sent
\* once, compiled as an indirect read
C16_Witness ==
    /\ CcrWritten
    /\ op = "read"
    /\ desc.dummy_cycles = 31 /\ desc.data_mode = "Dual" /\ desc.send_instruction_once
    /\ Field(CCR, 26, 2) = 1 /\ Field(CCR, 18, 5) = 31
    /\ Field(CCR, 24, 2) = 2 /\ Field(CCR, 28, 1) = 1

\* --------------------------------------------------------------- setup
StepsOf(evs) == [n \in 1..Len(evs) |-> evs[n].step]
\* the enable bit before the n-th step of the setup log
EnBefore(n) == IF n = 1 THEN 0 ELSE slog[n - 1].en

\* C17: qspi() enables the clock, resets the peripheral, clears the enable
\* bit, writes the configuration fields of CR (FIFO threshold as
\* fifo_threshold - 1, prescaler, sample shift, flash selection) and DCR
\* (flash size, chip-select high time, clock mode) and sets the enable bit, in
\* this order; the enable bit is clear before and after each of the two
\* configuration writes and set when the handle is returned; no transaction
\* register is written, and no call runs, before the handle is returned.
C17_SetupOrder ==
    /\ IsPrefix(StepsOf(slog),
                <<"enable_clock", "reset", "clear_en", "write_cr", "write_dcr", "set_en">>)
    /\ \A n \in 1..Len(slog) :
           slog[n].step \in {"write_cr", "write_dcr"} =>
               n > 1 /\ EnBefore(n) = 0 /\ slog[n].en = 0
    /\ Len(slog) >= 1 => clock
    /\ pc # "unbuilt" =>
        /\ Len(slog) = 6
        /\ CR = [en |-> 1,
                 fthres |-> sarg.fifo_threshold - 1,
                 prescaler |-> sarg.clock_prescalar,
                 sshift |-> BoolBit(sarg.sample_shifting),
                 fsel |-> BoolBit(sarg.flash_mode = "Flash2"),
                 dfm |-> BoolBit(sarg.flash_mode = "Dual")]
        /\ DCR = [fsize |-> sarg.flash_size,
                  csht |-> sarg.chip_select_high_time,
                  ckmode |-> BoolBit(sarg.clock_mode = "Mode3")]
    /\ pc = "unbuilt" =>
        /\ log = <<>>
        /\ Len(slog) >= 2 => ABR = Zero /\ CCR = Zero /\ AR = Zero /\ DLR = Zero

\* a peripheral found enabled is set up with the largest threshold, and the
\* first command on the handle has written its registers
C17_Witness ==
    /\ Returned("command")
    /\ Events("wr", {"CCR"}) # <<>>
    /\ Len(slog) = 6 /\ slog[1].en = 1
    /\ sarg.fifo_threshold = 32 /\ CR.fthres = 31 /\ CR.en = 1
    /\ sarg.flash_mode = "Dual" /\ CR.dfm = 1

\* ------------------------------------------------------- bytes of a read
\* C18: read() takes a byte from the data register only when the FIFO holds a
\* byte that the read transaction of this call has delivered, never because a
\* flag is still set from an earlier transaction.
C18_ReadsDelivered ==
    [][op = "read" /\ pc = "rd_dr" /\ i' = i + 1 => fifo # <<>> /\ launches >= 1]_vars

\* ------------------------------------------------ history independence
\* the arguments a public operation hands to config for a descriptor
ArgsOf(o, d) == IF o = "command" THEN CommandArgs(d) ELSE IoArgs(ModeOf(o), d)
\* config has written AR, its last register, in this call
ArWritten == Events("wr", {"AR"}) # <<>>

\* C19: when config has returned, ABR, CCR and AR are the values computed
\* from the operation and the descriptor of this call alone, the same on a
\* fresh handle and after an earlier command; ABR is 0 without alternate
\* bytes and AR is 0 without an address.
C19_ArgsOnly ==
    ArWritten =>
        /\ ABR = AbrValue(ArgsOf(op, desc))
        /\ CCR = CcrValue(ArgsOf(op, desc))
        /\ AR = ArValue(ArgsOf(op, desc))
        /\ desc.alternate_bytes = None => ABR = Zero
        /\ desc.address = None => AR = Zero

\* a read without address and alternate bytes after a command that had both
C19_Witness ==
    /\ ArWritten
    /\ op = "read"
    /\ tcf
    /\ desc.address = None /\ desc.alternate_bytes = None
    /\ ABR = Zero /\ AR = Zero

\* ------------------------------------------------------------------ frame
\* a call is between its entry and its return
Running == pc \notin {"unbuilt", "idle", "done", "panic"}

\* C20: command() and memory_mapped() neither read nor write DLR and DR and
\* leave DLR as it was; read() never writes DR and write() never reads it; no
\* step of any operation changes CR or DCR or clears the transfer-complete
\* flag.
C20_Frame ==
    /\ [](/\ op \in {"command", "memory_mapped"} =>
                Events("wr", {"DLR", "DR"}) = <<>> /\ Events("rd", {"DLR", "DR"}) = <<>>
          /\ op = "read" => Events("wr", {"DR"}) = <<>>
          /\ op = "write" => Events("rd", {"DR"}) = <<>>)
    /\ [][/\ Running /\ op \in {"command", "memory_mapped"} => DLR' = DLR
          /\ CR' = CR /\ DCR' = DCR
          /\ tcf => tcf']_vars

\* memory_mapped() has returned after a two-byte write: DLR still holds 1 and
\* the transfer-complete flag of the write is still set
C20_Witness ==
    /\ Returned("memory_mapped")
    /\ Events("wr", {"ABR", "CCR", "AR"}) # <<>>
    /\ DLR = W(1)
    /\ tcf

====
